---- MODULE Spec2Model ----
(***************************************************************************)
(* hubspot-bulkify: batchAndUpload (src/src/index.ts).                     *)
(*                                                                         *)
(* One run of batchAndUpload is modelled as a state machine.  The options  *)
(* of the call are the variable `options`; the locals of the function are  *)
(* variables of the same names; `pc` is the position of the async function.*)
(* The Bottleneck limiter built on lines 41-44 is modelled by the part of  *)
(* its state the run reads (running jobs, next admission time).            *)
(* Items are the integers 1..N; a batch is a sequence of items.            *)
(***************************************************************************)
EXTENDS Integers, Sequences, FiniteSets, TLC

VARIABLES
  options,                      \* the argument of batchAndUpload
  pc,                           \* position of the async function
  i,                            \* loop index of the partition loop (line 47)
  batches,                      \* const batches: T[][] (line 46)
  done,                         \* number of loop bodies of line 56 completed
  successfullyUploadedBatches,  \* line 52
  failedBatches,                \* line 53
  errors,                       \* line 54
  thrown,                       \* exception in flight in the loop body: << >> or << e >>
  running,                      \* limiter: jobs admitted and not finished
  nextRequest,                  \* limiter: earliest time of the next admission
  startAt,                      \* limiter: time the admitted job is due to start
  now,                          \* the clock, in ms
  inFlight,                     \* uploadFunction calls started and not settled
  uploadCalls,                  \* history: batch index of each uploadFunction call
  starts,                       \* history: clock value at each uploadFunction call
  settled,                      \* history: outcome of each settled upload
  onErrorCalls,                 \* history: arguments of each onError call
  progress,                     \* history: every progress line built (line 95)
  console,                      \* history: lines written to the console
  onProgressCalls,              \* history: lines passed to onProgress
  file,                         \* content of the file at logFileLocation
  writes,                       \* history: every fs.writeFileSync call (line 117)
  reports                       \* history: times the code after the loop has run

vars ==
  << options, pc, i, batches, done, successfullyUploadedBatches, failedBatches,
     errors, thrown, running, nextRequest, startAt, now, inFlight, uploadCalls,
     starts, settled, onErrorCalls, progress, console, onProgressCalls, file,
     writes, reports >>

(***************************************************************************)
(* Bounds of the model.                                                    *)
(***************************************************************************)
MaxItems ==
  2
MaxData ==
  6
MaxBatchSize ==
  2
MaxConcurrent ==
  2
MaxMinTime ==
  2
MaxUploadTime ==
  2
MaxSpin ==
  3

None ==
  "none"

Max(a, b) ==
  IF a >= b THEN a ELSE b

Min(a, b) ==
  IF a <= b THEN a ELSE b

(***************************************************************************)
(* Array.prototype.slice(start, end) on a sequence: negative indices count *)
(* from the end, both are clamped to 0..length, an empty range is [].      *)
(***************************************************************************)
RelativeIndex(len, k) ==
  IF k < 0 THEN Max(len + k, 0) ELSE Min(k, len)

Slice(s, start, end) ==
  LET from == RelativeIndex(Len(s), start)
      to == RelativeIndex(Len(s), end)
  IN  IF to <= from THEN << >> ELSE [k \in 1..(to - from) |-> s[from + k]]

\* line 48 with the slice end one short: data.slice(i, i + batchSize - 1)
NextBatchShort(data, idx, batchSize) ==
  Slice(data, idx, idx + batchSize - 1)

\* line 48: data.slice(i, i + batchSize)
NextBatch(data, idx, batchSize) ==
  Slice(data, idx, idx + batchSize)

(***************************************************************************)
(* The options of a run.  uploadFunction is given by what it does on its   *)
(* k-th call: how it settles, how many identifiers it returns relative to  *)
(* the length of the batch it was given, and how long it takes.            *)
(***************************************************************************)
Items(n) ==
  [k \in 1..n |-> k]

NumCalls(n, batchSize) ==
  IF batchSize > 0 THEN (n + batchSize - 1) \div batchSize ELSE 0

Resolves(times) ==
  [kind : {"resolve"}, ids : {-1, 0, 1}, ms : times]

Others(times) ==
  [kind : {"resolveNothing", "rejectError", "rejectOther"}, ids : {0}, ms : times]

Callbacks ==
  {None, "returns", "throws"}

Locations ==
  {None, "writable", "unwritable"}

\* rateLimit = { maxConcurrent: 5, minTime: 200 } (line 35)
DefaultRateLimit ==
  [maxConcurrent |-> 5, minTime |-> 200]

\* every kind of upload outcome and of callback, default rate limit
GeneralRuns ==
  UNION { UNION {
    [ data : {Items(n)},
      batchSize : {b},
      uploadFunction : [1..NumCalls(n, b) -> Resolves({0}) \cup Others({0})],
      rateLimit : {DefaultRateLimit},
      onError : Callbacks,
      onProgress : Callbacks,
      enableNativeLogging : BOOLEAN,
      logFileLocation : Locations ]
    : b \in -1..MaxBatchSize } : n \in 0..MaxItems }

\* every rate limit and every upload duration, one item per batch
TimedRuns ==
  UNION {
    [ data : {Items(n)},
      batchSize : {1},
      uploadFunction :
        [1..n -> {x \in Resolves(0..MaxUploadTime) \cup Others(0..MaxUploadTime) :
                    x.kind \in {"resolve", "rejectError"} /\ x.ids = 0}],
      rateLimit : [maxConcurrent : 0..MaxConcurrent, minTime : 0..MaxMinTime],
      onError : {None},
      onProgress : {"returns"},
      enableNativeLogging : {TRUE},
      logFileLocation : {None} ]
    : n \in 1..MaxItems }

\* 10 items in batches of 2: every mix of full uploads and rejections
FiveBatchRuns ==
  [ data : {Items(10)},
    batchSize : {2},
    uploadFunction :
      [1..NumCalls(10, 2) -> {x \in Resolves({0}) \cup Others({0}) :
                  x.kind \in {"resolve", "rejectError"} /\ x.ids = 0}],
    rateLimit : {DefaultRateLimit},
    onError : {None, "returns"},
    onProgress : {None, "returns"},
    enableNativeLogging : BOOLEAN,
    logFileLocation : {None, "writable"} ]

\* 8 items in batches of 1: every mix of full uploads and rejections
EightBatchRuns ==
  [ data : {Items(8)},
    batchSize : {1},
    uploadFunction :
      [1..NumCalls(8, 1) -> {x \in Resolves({0}) \cup Others({0}) :
                  x.kind \in {"resolve", "rejectError"} /\ x.ids = 0}],
    rateLimit : {DefaultRateLimit},
    onError : {None},
    onProgress : {None},
    enableNativeLogging : {TRUE},
    logFileLocation : {"writable"} ]

\* every data length and batch size, every upload a full one
SizeRuns ==
  UNION { UNION {
    [ data : {Items(n)},
      batchSize : {b},
      uploadFunction : {[k \in 1..NumCalls(n, b) |-> [kind |-> "resolve", ids |-> 0, ms |-> 0]]},
      rateLimit : {DefaultRateLimit},
      onError : {None},
      onProgress : {None},
      enableNativeLogging : {TRUE},
      logFileLocation : {None} ]
    : b \in -1..(MaxBatchSize + 1) } : n \in 0..MaxData }

RunConfigs ==
  GeneralRuns \cup TimedRuns \cup FiveBatchRuns \cup EightBatchRuns \cup SizeRuns

StaleFile ==
  << [index |-> 0, message |-> "left by an earlier run", details |-> << >>] >>

Init ==
  /\ options \in RunConfigs
  /\ pc = "partition"
  /\ i = 0
  /\ batches = << >>
  /\ done = 0
  /\ successfullyUploadedBatches = 0
  /\ failedBatches = 0
  /\ errors = << >>
  /\ thrown = << >>
  /\ running = 0
  /\ nextRequest = 0
  /\ startAt = 0
  /\ now = 0
  /\ inFlight = 0
  /\ uploadCalls = << >>
  /\ starts = << >>
  /\ settled = << >>
  /\ onErrorCalls = << >>
  /\ progress = << >>
  /\ console = << >>
  /\ onProgressCalls = << >>
  /\ file \in {<< >>, StaleFile}
  /\ writes = << >>
  /\ reports = 0

(***************************************************************************)
(* Lines 46-49: the partition loop, one iteration per step.  With a batch  *)
(* size <= 0 the index never reaches data.length; the model stops the loop *)
(* after MaxSpin iterations.                                               *)
(***************************************************************************)
\* line 47 with <= for <
LoopContinuesAtEnd(idx, data) ==
  idx <= Len(data)

\* line 47: i < data.length
LoopContinues(idx, data) ==
  idx < Len(data)

PartitionStep ==
  /\ pc = "partition"
  /\ LoopContinues(i, options.data)
  /\ (options.batchSize <= 0) => (Len(batches) < MaxSpin)
  /\ batches' = Append(batches, NextBatch(options.data, i, options.batchSize))
  /\ i' = i + options.batchSize
  /\ UNCHANGED << options, pc, done, successfullyUploadedBatches, failedBatches,
                  errors, thrown, running, nextRequest, startAt, now, inFlight,
                  uploadCalls, starts, settled, onErrorCalls, progress, console,
                  onProgressCalls, file, writes, reports >>

PartitionDone ==
  /\ pc = "partition"
  /\ ~LoopContinues(i, options.data)
  /\ pc' = "loop"
  /\ UNCHANGED << options, i, batches, done, successfullyUploadedBatches,
                  failedBatches, errors, thrown, running, nextRequest, startAt,
                  now, inFlight, uploadCalls, starts, settled, onErrorCalls,
                  progress, console, onProgressCalls, file, writes, reports >>

(***************************************************************************)
(* Errors.  instanceofError is what `error instanceof Error` answers; call *)
(* names the uploadFunction call that raised it (0: made by the run).      *)
(***************************************************************************)
\* lines 65-67
MismatchError ==
  [instanceofError |-> TRUE, call |-> 0,
   message |-> "Some items in the batch failed to get a HubSpot ID."]

\* line 80
UnknownError ==
  [instanceofError |-> TRUE, call |-> 0, message |-> "An unknown error occurred."]

\* what a throwing onError / onProgress callback raises
CallbackError ==
  [instanceofError |-> TRUE, call |-> 0, message |-> "raised by a callback"]

\* what limiter.schedule rejects with when the job can never be admitted
BottleneckError ==
  [instanceofError |-> TRUE, call |-> 0, message |-> "Impossible to add a job"]

\* the value the k-th uploadFunction call rejects with
Rejection(behaviour, k) ==
  [instanceofError |-> (behaviour.kind = "rejectError"), call |-> k,
   message |-> "raised by uploadFunction"]

\* the value the k-th uploadFunction call resolves with
Response(behaviour, batch) ==
  [present |-> (behaviour.kind = "resolve"), hubspotIds |-> Len(batch) + behaviour.ids]

\* line 61 with >= for ===
IsFullUploadAtLeast(response, batch) ==
  /\ response.present
  /\ response.hubspotIds >= Len(batch)

\* line 61: response && response.hubspotIds.length === batch.length
\* (present is the truthiness of the response)
IsFullUpload(response, batch) ==
  /\ response.present
  /\ response.hubspotIds = Len(batch)

(***************************************************************************)
(* The task given to limiter.schedule (lines 58-87).  `st` holds the       *)
(* locals the task writes: the two counters, errors, the onError calls     *)
(* made and the exception in flight (<< >> when there is none).            *)
(***************************************************************************)
\* lines 68-70, 76-78, 82-84
CallOnError(st, error, batch, onError) ==
  IF onError = None
  THEN st
  ELSE [st EXCEPT !.onErrorCalls = Append(@, [error |-> error, batch |-> batch]),
                  !.thrown = IF onError = "throws" THEN << CallbackError >> ELSE << >>]

\* lines 60-71
TryBlock(st, response, batch, onError) ==
  IF IsFullUpload(response, batch)
  THEN [st EXCEPT !.successfullyUploadedBatches = @ + 1]
  ELSE CallOnError(
         [st EXCEPT !.failedBatches = @ + 1,
                    !.errors = Append(@, [error |-> MismatchError, batch |-> batch])],
         MismatchError, batch, onError)

\* lines 72-86 with the error raised again at the end of the catch block
CatchBlockRethrows(st, error, batch, onError) ==
  LET recorded == IF error.instanceofError THEN error ELSE UnknownError
  IN  [ CallOnError(
          [st EXCEPT !.failedBatches = @ + 1,
                     !.errors = Append(@, [error |-> recorded, batch |-> batch])],
          recorded, batch, onError)
        EXCEPT !.thrown = << error >> ]

\* lines 72-86 without the onError call of lines 82-84
CatchBlockSilentUnknown(st, error, batch, onError) ==
  LET recorded == IF error.instanceofError THEN error ELSE UnknownError
      counted == [st EXCEPT !.failedBatches = @ + 1,
                            !.errors = Append(@, [error |-> recorded, batch |-> batch])]
  IN  IF error.instanceofError
      THEN CallOnError(counted, recorded, batch, onError)
      ELSE counted

\* lines 72-86 recording whatever was raised, without lines 79-81
CatchBlockRecordsRaw(st, error, batch, onError) ==
  CallOnError(
    [st EXCEPT !.failedBatches = @ + 1,
               !.errors = Append(@, [error |-> error, batch |-> batch])],
    error, batch, onError)

\* lines 72-86
CatchBlock(st, error, batch, onError) ==
  LET recorded == IF error.instanceofError THEN error ELSE UnknownError
  IN  CallOnError(
        [st EXCEPT !.failedBatches = @ + 1,
                   !.errors = Append(@, [error |-> recorded, batch |-> batch])],
        recorded, batch, onError)

\* lines 58-87: the result of the task for the k-th call of uploadFunction
TaskBody(st, behaviour, k, batch, onError) ==
  LET tried ==
        IF behaviour.kind \in {"resolve", "resolveNothing"}
        THEN TryBlock(st, Response(behaviour, batch), batch, onError)
        ELSE [st EXCEPT !.thrown = << Rejection(behaviour, k) >>]
  IN  IF tried.thrown = << >>
      THEN tried
      ELSE CatchBlock([tried EXCEPT !.thrown = << >>], tried.thrown[1], batch, onError)

(***************************************************************************)
(* The limiter of lines 41-44 and limiter.schedule of line 58.  A job has  *)
(* weight 1.  schedule rejects a job heavier than maxConcurrent; a job is  *)
(* admitted when running + 1 <= maxConcurrent, and is due to start at      *)
(* max(nextRequest, now); nextRequest then moves minTime past that start.  *)
(***************************************************************************)
\* line 42 with the cap one too high
limiterMaxConcurrentOffByOne ==
  options.rateLimit.maxConcurrent + 1

\* line 42
limiterMaxConcurrent ==
  options.rateLimit.maxConcurrent

\* line 43 with the delay one millisecond short
limiterMinTimeShort ==
  options.rateLimit.minTime - 1

\* line 43
limiterMinTime ==
  options.rateLimit.minTime

\* line 56 taking the same batch again
CurrentBatchAgain(n) ==
  IF n = 0 THEN 1 ELSE n

\* line 56: for (const batch of batches), the batch after n completed bodies
CurrentBatch(n) ==
  n + 1

\* line 58 without the await: the loop goes on while the task is pending
DriverReadyWithoutAwait ==
  pc \in {"loop", "scheduled", "uploading"}

\* lines 56-58: the loop takes a batch only at the top of the loop, which it
\* reaches after the awaited promise of schedule has settled and the finally
\* block has run
DriverReady ==
  pc = "loop"

\* line 58, first half: the driver hands the task of the next batch to the
\* limiter; a limiter whose maxConcurrent is below the weight of a job rejects
\* the promise of schedule, which the try of line 57 passes to its finally
Submit ==
  /\ DriverReady
  /\ done < Len(batches)
  /\ IF 1 > limiterMaxConcurrent
     THEN /\ thrown' = << BottleneckError >>
          /\ pc' = "finally"
     ELSE /\ thrown' = << >>
          /\ pc' = "queued"
  /\ UNCHANGED << options, i, batches, done, successfullyUploadedBatches,
                  failedBatches, errors, running, nextRequest, startAt, now,
                  inFlight, uploadCalls, starts, settled, onErrorCalls, progress,
                  console, onProgressCalls, file, writes, reports >>

\* the limiter admits the queued job and sets its timer (the timer fires when
\* it is due: Start)
Admit ==
  /\ pc = "queued"
  /\ running + 1 <= limiterMaxConcurrent
  /\ running' = running + 1
  /\ startAt' = Max(nextRequest, now)
  /\ nextRequest' = Max(nextRequest, now) + limiterMinTime
  /\ pc' = "scheduled"
  /\ UNCHANGED << options, i, batches, done, successfullyUploadedBatches,
                  failedBatches, errors, thrown, now, inFlight, uploadCalls,
                  starts, settled, onErrorCalls, progress, console,
                  onProgressCalls, file, writes, reports >>

\* the timer fires: the task starts and calls uploadFunction(batch) (line 60)
Start ==
  /\ pc = "scheduled"
  /\ now' = Max(now, startAt)
  /\ inFlight' = inFlight + 1
  /\ uploadCalls' = Append(uploadCalls, CurrentBatch(done))
  /\ starts' = Append(starts, now')
  /\ pc' = "uploading"
  /\ UNCHANGED << options, i, batches, done, successfullyUploadedBatches,
                  failedBatches, errors, thrown, running, nextRequest, startAt,
                  settled, onErrorCalls, progress, console, onProgressCalls, file, writes, reports >>

\* uploadFunction settles and the rest of the task runs (lines 60-86); the
\* limiter then frees the job and settles the promise of schedule
Settle ==
  /\ pc = "uploading"
  /\ LET k == Len(uploadCalls)
         batch == batches[uploadCalls[k]]
         behaviour == options.uploadFunction[k]
         after == TaskBody(
                    [ successfullyUploadedBatches |-> successfullyUploadedBatches,
                      failedBatches |-> failedBatches,
                      errors |-> errors,
                      onErrorCalls |-> onErrorCalls,
                      thrown |-> << >> ],
                    behaviour, k, batch, options.onError)
     IN  /\ now' = now + behaviour.ms
         /\ successfullyUploadedBatches' = after.successfullyUploadedBatches
         /\ failedBatches' = after.failedBatches
         /\ errors' = after.errors
         /\ onErrorCalls' = after.onErrorCalls
         /\ thrown' = after.thrown
         /\ settled' = Append(settled,
                         [ batch |-> uploadCalls[k],
                           kind |-> behaviour.kind,
                           ids |-> Response(behaviour, batch).hubspotIds,
                           size |-> Len(batch) ])
  /\ inFlight' = inFlight - 1
  /\ running' = running - 1
  /\ pc' = "finally"
  /\ UNCHANGED << options, i, batches, done, nextRequest, startAt, uploadCalls,
                  starts, progress, console, onProgressCalls, file, writes, reports >>

(***************************************************************************)
(* The finally block (lines 88-104).                                       *)
(***************************************************************************)
\* Math.round(num / den) for num >= 0, den > 0
Round(num, den) ==
  (2 * num + den) \div (2 * den)

\* lines 89-92 rounding down
PercentageFloor(count, totalBatches) ==
  (count * 100) \div totalBatches

\* lines 89-92: Math.round((count / totalBatches) * 100)
Percentage(count, totalBatches) ==
  Round(count * 100, totalBatches)

\* lines 89-95
ProgressLog(successCount, failedCount, totalBatches) ==
  LET completedPercentage == Percentage(successCount, totalBatches)
      failedPercentage == Percentage(failedCount, totalBatches)
  IN  [ kind |-> "progress",
        completed |-> completedPercentage,
        failed |-> failedPercentage,
        remaining |-> 100 - completedPercentage - failedPercentage ]

\* lines 97-99
ConsoleLog(out, line, enableNativeLogging) ==
  IF enableNativeLogging THEN Append(out, line) ELSE out

\* lines 101-103 moved inside the if of line 97
CallOnProgressIfLogging(calls, line, onProgress, enableNativeLogging) ==
  IF onProgress # None /\ enableNativeLogging THEN Append(calls, line) ELSE calls

\* lines 101-103
CallOnProgress(calls, line, onProgress, enableNativeLogging) ==
  IF onProgress # None THEN Append(calls, line) ELSE calls

\* lines 88-105: the finally block, then the exception in flight (if any)
\* leaves the loop and rejects the run, else the loop goes on
Progress ==
  /\ pc = "finally"
  /\ LET line == ProgressLog(successfullyUploadedBatches, failedBatches, Len(batches))
         raised == IF options.onProgress = "throws" THEN << CallbackError >> ELSE thrown
     IN  /\ progress' = Append(progress,
                          [ log |-> line,
                            batch |-> CurrentBatch(done),
                            successCount |-> successfullyUploadedBatches,
                            failedCount |-> failedBatches,
                            settledCount |-> Len(settled) ])
         /\ console' = ConsoleLog(console, line, options.enableNativeLogging)
         /\ onProgressCalls' = CallOnProgress(onProgressCalls, line, options.onProgress,
                                              options.enableNativeLogging)
         /\ thrown' = raised
         /\ pc' = IF raised = << >> THEN "loop" ELSE "rejected"
         /\ done' = IF raised = << >> THEN done + 1 ELSE done
  /\ UNCHANGED << options, i, batches, successfullyUploadedBatches, failedBatches,
                  errors, running, nextRequest, startAt, now, inFlight, uploadCalls,
                  starts, settled, onErrorCalls, file, writes, reports >>

(***************************************************************************)
(* After the loop (lines 107-136).                                         *)
(***************************************************************************)
\* lines 109-114: one block per entry of errors, numbered by its index in errors
LogLines(errs) ==
  [ index \in 1..Len(errs) |->
      [ index |-> index, message |-> errs[index].error.message,
        details |-> errs[index].batch ] ]

Summary(kind, count) ==
  [kind |-> kind, count |-> count]

\* what fs.writeFileSync raises for a path it cannot write
FileError ==
  [instanceofError |-> TRUE, call |-> 0, message |-> "raised by fs.writeFileSync"]

\* lines 116-129 appending to the file instead of replacing its content
WriteLogAppending(errs, location, content) ==
  IF location = "writable"
  THEN [file |-> content \o LogLines(errs), summary |-> "see detailed logs", thrown |-> << >>]
  ELSE [file |-> content, summary |-> "failed to write", thrown |-> << >>]

\* lines 116-129 without the catch of line 123
WriteLogUncaught(errs, location, content) ==
  IF location = "writable"
  THEN [file |-> LogLines(errs), summary |-> "see detailed logs", thrown |-> << >>]
  ELSE [file |-> content, summary |-> None, thrown |-> << FileError >>]

\* lines 116-129: the write of the log file, its summary, and what the
\* try/catch lets out; `content` is the file before the write
WriteLog(errs, location, content) ==
  IF location = "writable"
  THEN [file |-> LogLines(errs), summary |-> "see detailed logs", thrown |-> << >>]
  ELSE [file |-> content, summary |-> "failed to write", thrown |-> << >>]

\* lines 130-135 printing only when native logging is enabled
NoFileSummaryIfLogging(out, count, enableNativeLogging) ==
  IF enableNativeLogging THEN Append(out, Summary("provide a logFileLocation", count)) ELSE out

\* lines 130-135: console.error, whatever enableNativeLogging is
NoFileSummary(out, count, enableNativeLogging) ==
  Append(out, Summary("provide a logFileLocation", count))

\* lines 107-137: the code after the loop
Report ==
  /\ DriverReady
  /\ done >= Len(batches)
  /\ reports' = reports + 1
  /\ IF Len(errors) > 0 /\ options.logFileLocation # None
     THEN LET written == WriteLog(errors, options.logFileLocation, file)
          IN  /\ writes' = Append(writes, [location |-> options.logFileLocation,
                                           content |-> LogLines(errors),
                                           settledCount |-> Len(settled)])
              /\ file' = written.file
              /\ console' = IF written.summary = None
                            THEN console
                            ELSE Append(console, Summary(written.summary, Len(errors)))
              /\ thrown' = written.thrown
              /\ pc' = IF written.thrown = << >> THEN "resolved" ELSE "rejected"
     ELSE /\ writes' = writes
          /\ file' = file
          /\ console' = IF Len(errors) > 0
                        THEN NoFileSummary(console, Len(errors), options.enableNativeLogging)
                        ELSE console
          /\ thrown' = thrown
          /\ pc' = "resolved"
  /\ UNCHANGED << options, i, batches, done, successfullyUploadedBatches,
                  failedBatches, errors, running, nextRequest, startAt, now,
                  inFlight, uploadCalls, starts, settled, onErrorCalls, progress,
                  onProgressCalls >>

Next ==
  \/ PartitionStep
  \/ PartitionDone
  \/ Submit
  \/ Admit
  \/ Start
  \/ Settle
  \/ Progress
  \/ Report

Spec ==
  Init /\ [][Next]_vars

\* the steps the program and the limiter's timers take by themselves
DriverStep ==
  \/ PartitionStep
  \/ PartitionDone
  \/ Submit
  \/ Admit
  \/ Start
  \/ Progress
  \/ Report

\* the event loop runs every step that is ready, and every call of
\* uploadFunction settles
FairSpec ==
  /\ Init /\ [][Next]_vars
  /\ WF_vars(DriverStep)
  /\ WF_vars(Settle)

(***************************************************************************)
(* Vocabulary of the properties.                                           *)
(***************************************************************************)
TotalBatches ==
  Len(batches)

ValidRateLimit ==
  options.rateLimit.maxConcurrent >= 1 /\ options.rateLimit.minTime >= 0

CallbacksReturn ==
  options.onError # "throws" /\ options.onProgress # "throws"

\* a settled upload that returned exactly one identifier per item
FullUpload(outcome) ==
  outcome.kind = "resolve" /\ outcome.ids = outcome.size

RECURSIVE Flatten(_)
Flatten(seqs) ==
  IF seqs = << >> THEN << >> ELSE Head(seqs) \o Flatten(Tail(seqs))

RECURSIVE SumOfLengths(_)
SumOfLengths(seqs) ==
  IF seqs = << >> THEN 0 ELSE Len(Head(seqs)) + SumOfLengths(Tail(seqs))

NumberOf(seq, Test(_)) ==
  Cardinality({k \in 1..Len(seq) : Test(seq[k])})

FailedUpload(outcome) ==
  ~FullUpload(outcome)

\* the failed uploads among the outcomes, in order
RECURSIVE Failures(_)
Failures(outcomes) ==
  IF outcomes = << >> THEN << >>
  ELSE IF FailedUpload(Head(outcomes))
       THEN << Head(outcomes) >> \o Failures(Tail(outcomes))
       ELSE Failures(Tail(outcomes))

\* the progress lines among the lines of the console, in order
RECURSIVE ProgressLines(_)
ProgressLines(lines) ==
  IF lines = << >> THEN << >>
  ELSE IF Head(lines).kind = "progress"
       THEN << Head(lines) >> \o ProgressLines(Tail(lines))
       ELSE ProgressLines(Tail(lines))

\* p = Math.round(100 * count / total), said without the model's Round
IsRoundedPercentage(p, count, total) ==
  /\ 2 * total * p - total <= 200 * count
  /\ 200 * count < 2 * total * p + total

\* the uploadFunction of the mixed scenario: calls 1, 3, 5 return one
\* identifier per item, calls 2 and 4 reject
MixedScenario ==
  /\ Len(options.data) = 10
  /\ options.batchSize = 2
  /\ \A k \in {1, 3, 5} : options.uploadFunction[k].kind = "resolve"
                            /\ options.uploadFunction[k].ids = 0
  /\ \A k \in {2, 4} : options.uploadFunction[k].kind = "rejectError"

(***************************************************************************)
(* C1: per-batch failure isolation.  In a run with a valid configuration   *)
(* whose callbacks return, whatever the upload outcomes (full result,      *)
(* mismatched count, no result, rejection with an Error or with another    *)
(* value): the run is never aborted, it is never stuck before it resolves, *)
(* every batch whose loop body has ended was uploaded whether or not an    *)
(* earlier batch failed, and at the end every batch of the partition has   *)
(* been given to uploadFunction.                                           *)
(***************************************************************************)
C1_FailureIsolation ==
  (options.batchSize > 0 /\ ValidRateLimit /\ CallbacksReturn) =>
    /\ pc # "rejected"
    /\ (pc = "finally") => (thrown = << >>)
    /\ (pc # "resolved") => ENABLED Next
    /\ \A j \in 1..done : \E k \in 1..Len(uploadCalls) : uploadCalls[k] = j
    /\ (pc = "resolved") =>
         \A j \in 1..TotalBatches : \E k \in 1..Len(uploadCalls) : uploadCalls[k] = j

\* a run that resolved after its first upload was rejected with a non-Error
\* value, and that uploaded the second batch
C1_Witness ==
  /\ pc = "resolved"
  /\ CallbacksReturn
  /\ TotalBatches = 2
  /\ settled[1].kind = "rejectOther"
  /\ uploadCalls = << 1, 2 >>

(***************************************************************************)
(* C2: partitioning.  For every input of N >= 0 items and every batch size *)
(* B > 0, once the partition loop has ended there are exactly ceil(N/B)    *)
(* batches, each of B items except the last, which has between 1 and B;    *)
(* the sizes sum to N and the batches concatenated in order are the input. *)
(***************************************************************************)
C2_Partition ==
  (options.batchSize > 0 /\ pc # "partition") =>
    LET N == Len(options.data)
        B == options.batchSize
    IN  /\ TotalBatches * B >= N
        /\ (TotalBatches - 1) * B < N \/ (N = 0 /\ TotalBatches = 0)
        /\ \A k \in 1..(TotalBatches - 1) : Len(batches[k]) = B
        /\ (TotalBatches > 0) =>
             /\ Len(batches[TotalBatches]) >= 1
             /\ Len(batches[TotalBatches]) <= B
        /\ SumOfLengths(batches) = N
        /\ Flatten(batches) = options.data

\* three items in batches of two: a full batch and a shorter last one
C2_Witness ==
  /\ pc = "loop"
  /\ Len(options.data) = 3
  /\ options.batchSize = 2
  /\ batches = << << 1, 2 >>, << 3 >> >>

(***************************************************************************)
(* C3: exactly-once upload.  uploadFunction is never called twice for the  *)
(* same batch (no retry after a success or a failure), the calls are made  *)
(* in partition order, and a run that has resolved has called it exactly   *)
(* once for every batch of the partition.                                  *)
(***************************************************************************)
C3_ExactlyOnce ==
  /\ \A k \in 1..Len(uploadCalls) : uploadCalls[k] = k
  /\ Len(uploadCalls) <= TotalBatches
  /\ (pc = "resolved") => (Len(uploadCalls) = TotalBatches)

\* a resolved run of two batches whose first upload failed and was not retried
C3_Witness ==
  /\ pc = "resolved"
  /\ TotalBatches = 2
  /\ settled[1].kind = "rejectError"
  /\ Len(uploadCalls) = 2

C5_InvalidBatchSizeFailsFast ==
  (options.batchSize <= 0) =>
    /\ batches = << >>
    /\ uploadCalls = << >>
    /\ pc \notin {"loop", "resolved"}

C7_ProgressEmission ==
  /\ ValidRateLimit =>
       /\ \A k \in 1..Len(progress) :
            progress[k].batch = k /\ progress[k].settledCount = k
       /\ Len(progress) <= Len(settled)
       /\ Len(settled) <= Len(progress) + 1
       /\ (pc \in {"loop", "resolved", "rejected"}) => (Len(progress) = Len(settled))
  /\ (pc = "resolved") => (Len(progress) = TotalBatches)
  /\ (options.onProgress # None) =>
       onProgressCalls = [k \in 1..Len(progress) |-> progress[k].log]
  /\ (options.onProgress = None) => (onProgressCalls = << >>)
  /\ options.enableNativeLogging =>
       ProgressLines(console) = [k \in 1..Len(progress) |-> progress[k].log]
  /\ (~options.enableNativeLogging) => (ProgressLines(console) = << >>)

\* a resolved run with native logging off: a failed and a full upload, both
\* lines passed to onProgress, none on the console
C7_Witness ==
  /\ pc = "resolved"
  /\ ~options.enableNativeLogging
  /\ options.onProgress = "returns"
  /\ TotalBatches = 2
  /\ settled[1].kind = "rejectError"
  /\ FullUpload(settled[2])
  /\ Len(onProgressCalls) = 2
  /\ ProgressLines(console) = << >>

(***************************************************************************)
(* C8: progress percentages.  Every progress line reports                  *)
(* round(successCount / totalBatches * 100), round(failureCount /          *)
(* totalBatches * 100) and 100 minus both, for the counters at the moment  *)
(* it is built; the success percentage never decreases from one line to    *)
(* the next; the last line of the mixed scenario is 60 / 40 / 0.           *)
(***************************************************************************)
C8_Percentages ==
  /\ \A k \in 1..Len(progress) :
       /\ IsRoundedPercentage(progress[k].log.completed, progress[k].successCount,
                              TotalBatches)
       /\ IsRoundedPercentage(progress[k].log.failed, progress[k].failedCount,
                              TotalBatches)
       /\ progress[k].log.remaining =
            100 - progress[k].log.completed - progress[k].log.failed
  /\ (pc = "finally") =>
       /\ IsRoundedPercentage(
            ProgressLog(successfullyUploadedBatches, failedBatches, TotalBatches).completed,
            successfullyUploadedBatches, TotalBatches)
       /\ IsRoundedPercentage(
            ProgressLog(successfullyUploadedBatches, failedBatches, TotalBatches).failed,
            failedBatches, TotalBatches)
  /\ \A k \in 1..(Len(progress) - 1) :
       progress[k].log.completed <= progress[k + 1].log.completed
  /\ (pc = "resolved" /\ MixedScenario) =>
       /\ Len(progress) = 5
       /\ progress[5].log =
            [kind |-> "progress", completed |-> 60, failed |-> 40, remaining |-> 0]

\* the last line of the mixed scenario
C8_Witness ==
  /\ pc = "resolved"
  /\ MixedScenario
  /\ Len(progress) = 5
  /\ progress[5].log.completed = 60
  /\ progress[5].log.failed = 40

(***************************************************************************)
(* C9: concurrency cap.  At every instant the number of uploadFunction     *)
(* calls that have started and not settled is at most                      *)
(* rateLimit.maxConcurrent.                                                *)
(***************************************************************************)
C9_ConcurrencyCap ==
  inFlight <= options.rateLimit.maxConcurrent

\* an upload in flight at the cap
C9_Witness ==
  /\ pc = "uploading"
  /\ inFlight = 1
  /\ options.rateLimit.maxConcurrent = 1

(***************************************************************************)
(* C10: pacing.  The uploads of two consecutive batches start at least     *)
(* rateLimit.minTime apart, however long the uploads take.                 *)
(***************************************************************************)
C10_Pacing ==
  \A k \in 1..(Len(starts) - 1) :
    starts[k + 1] - starts[k] >= options.rateLimit.minTime

\* the first upload took no time and the second started minTime later
C10_Witness ==
  /\ Len(starts) >= 2
  /\ options.rateLimit.minTime = 2
  /\ options.uploadFunction[1].ms = 0
  /\ starts[2] - starts[1] = 2

(***************************************************************************)
(* C11: error log file.  fs.writeFileSync is called if and only if the run *)
(* reached its end with at least one failure record and a logFileLocation; *)
(* it is called at most once and only after every batch has settled; after *)
(* a write to a writable location the file holds exactly one block per     *)
(* failure record (failedBatches blocks), whatever it held before.  With   *)
(* failures and no logFileLocation no write is made, the file keeps its    *)
(* content and the console gets the summary naming the failure count; with *)
(* no failure no write is made.                                            *)
(***************************************************************************)
C11_ErrorLogFile ==
  /\ Len(writes) <= 1
  /\ (writes # << >>) =>
       /\ pc \in {"resolved", "rejected"}
       /\ writes[1].settledCount = TotalBatches
       /\ Len(settled) = TotalBatches
  /\ (pc = "resolved") =>
       /\ (writes # << >>) <=> (failedBatches >= 1 /\ options.logFileLocation # None)
       /\ (failedBatches >= 1 /\ options.logFileLocation = "writable") =>
            /\ Len(file) = failedBatches
            /\ \A k \in 1..Len(file) :
                 /\ file[k].message = errors[k].error.message
                 /\ file[k].details = errors[k].batch
       /\ (failedBatches >= 1 /\ options.logFileLocation = None) =>
            /\ file \in {<< >>, StaleFile}
            /\ console # << >>
            /\ console[Len(console)] = Summary("provide a logFileLocation", failedBatches)
       /\ (failedBatches = 0) => (file \in {<< >>, StaleFile})

\* a resolved run with two failures whose log replaced the earlier content
C11_Witness ==
  /\ pc = "resolved"
  /\ TotalBatches = 2
  /\ failedBatches = 2
  /\ options.logFileLocation = "writable"
  /\ Len(writes) = 1
  /\ Len(file) = 2
  /\ file[1].index = 1

(***************************************************************************)
(* C12: a failing log write is swallowed.  When the code after the loop    *)
(* has run with failures and a logFileLocation that cannot be written, the *)
(* run has resolved, the console got the line reporting the write failure  *)
(* and not the summary naming the file, the file kept its content, and the *)
(* counters and failure records are those of the last progress line.       *)
(***************************************************************************)
C12_WriteFailureSwallowed ==
  (reports >= 1 /\ options.logFileLocation = "unwritable" /\ Len(errors) >= 1) =>
    /\ pc = "resolved"
    /\ thrown = << >>
    /\ console[Len(console)] = Summary("failed to write", Len(errors))
    /\ \A k \in 1..Len(console) : console[k].kind # "see detailed logs"
    /\ file \in {<< >>, StaleFile}
    /\ successfullyUploadedBatches = progress[Len(progress)].successCount
    /\ failedBatches = progress[Len(progress)].failedCount
    /\ Len(errors) = failedBatches
    /\ successfullyUploadedBatches + failedBatches = TotalBatches

\* a resolved run whose log could not be written
C12_Witness ==
  /\ pc = "resolved"
  /\ options.logFileLocation = "unwritable"
  /\ failedBatches = 1
  /\ successfullyUploadedBatches = 1
  /\ Len(writes) = 1
  /\ file = StaleFile

(***************************************************************************)
(* C13: the run never raises.  With a batchSize > 0 and a valid rate limit *)
(* the run is never rejected, whatever uploadFunction, onError, onProgress *)
(* and the log-file write do.                                              *)
(***************************************************************************)
C13_NeverRejects ==
  (options.batchSize > 0 /\ ValidRateLimit) => (pc # "rejected")

(***************************************************************************)
(* C14, as claimed: with enableNativeLogging false nothing is written to   *)
(* the console, neither progress lines nor the failure summary.            *)
(***************************************************************************)
C14_LoggingGatesAllConsole ==
  (~options.enableNativeLogging) => (console = << >>)

(***************************************************************************)
(* C14, amended: enableNativeLogging gates the progress lines only.  With  *)
(* enableNativeLogging false no progress line is written to the console;   *)
(* the failure summary is written to the console at the end of every run   *)
(* that resolves with a failure, whatever enableNativeLogging is, and is   *)
(* then the only line of the console when enableNativeLogging is false.    *)
(***************************************************************************)
C14_LoggingGatesProgressOnly ==
  /\ (~options.enableNativeLogging) => (ProgressLines(console) = << >>)
  /\ (pc = "resolved" /\ Len(errors) >= 1) =>
       /\ console # << >>
       /\ console[Len(console)] =
            Summary(CASE options.logFileLocation = None -> "provide a logFileLocation"
                      [] options.logFileLocation = "writable" -> "see detailed logs"
                      [] OTHER -> "failed to write",
                    Len(errors))
       /\ (~options.enableNativeLogging) => (Len(console) = 1)
  /\ (pc = "resolved" /\ Len(errors) = 0 /\ ~options.enableNativeLogging) =>
       (console = << >>)

\* a resolved run with native logging off, one failure and no log file: the
\* summary is the only line of the console
C14_Witness ==
  /\ pc = "resolved"
  /\ ~options.enableNativeLogging
  /\ options.logFileLocation = None
  /\ failedBatches = 1
  /\ console = << Summary("provide a logFileLocation", 1) >>

(***************************************************************************)
(* C15: empty input is a no-op success.  With empty data there is no batch,*)
(* uploadFunction, onError and onProgress are never called, no progress    *)
(* line and no failure summary is produced, no file is written, and the    *)
(* run is never rejected and goes on until it has resolved.                *)
(***************************************************************************)
C15_EmptyInput ==
  (Len(options.data) = 0) =>
    /\ batches = << >>
    /\ uploadCalls = << >>
    /\ onErrorCalls = << >>
    /\ onProgressCalls = << >>
    /\ progress = << >>
    /\ console = << >>
    /\ writes = << >>
    /\ file \in {<< >>, StaleFile}
    /\ pc \in {"partition", "loop", "resolved"}
    /\ (pc # "resolved") => ENABLED Next

\* a resolved run on empty data with callbacks and a log file location
C15_Witness ==
  /\ pc = "resolved"
  /\ Len(options.data) = 0
  /\ options.batchSize = 2
  /\ options.onProgress = "throws"
  /\ options.onError = "throws"
  /\ options.logFileLocation = "writable"
  /\ reports = 1

C17_Serialization ==
  /\ inFlight <= 1
  /\ running <= 1
  /\ Len(uploadCalls) <= Len(settled) + 1
  /\ Len(uploadCalls) <= Len(progress) + 1
  /\ (pc = "uploading") =>
       /\ inFlight = 1
       /\ Len(settled) = Len(uploadCalls) - 1
       /\ Len(progress) = Len(uploadCalls) - 1
       /\ \A k \in 1..Len(progress) :
            /\ progress[k].batch = uploadCalls[k]
            /\ settled[k].batch = uploadCalls[k]
            /\ progress[k].settledCount = k

\* the limiter would allow two jobs, the second upload is in flight alone
C17_Witness ==
  /\ options.rateLimit.maxConcurrent >= 2
  /\ pc = "uploading"
  /\ Len(uploadCalls) = 2
  /\ inFlight = 1
  /\ Len(settled) = 1
  /\ Len(progress) = 1

(***************************************************************************)
(* C18: log block numbering.  In the error log written by a run whose      *)
(* onError returns, the k-th block is headed by the 1-based position,      *)
(* among the batches of the run, of the k-th batch that failed, and shows  *)
(* the items of that batch.                                                *)
(***************************************************************************)
C18_BlockNumbering ==
  (options.onError # "throws") =>
    \A w \in 1..Len(writes) :
      LET failures == Failures(settled)
          content == writes[w].content
      IN  /\ Len(content) = Len(failures)
          /\ \A k \in 1..Len(content) :
               /\ content[k].details = batches[failures[k].batch]
               /\ content[k].index = failures[k].batch

(***************************************************************************)
(* C19: remaining percentage.  In a run with batchSize > 0 whose callbacks *)
(* return, whatever the upload outcomes, the remaining percentage of every *)
(* progress line lies in 0..100, and the remaining percentage of the line  *)
(* of the last batch, once every batch has settled, is 0.                  *)
(***************************************************************************)
C19_RemainingWellFormed ==
  (options.batchSize > 0 /\ CallbacksReturn) =>
    /\ \A k \in 1..Len(progress) : progress[k].log.remaining \in 0..100
    /\ (TotalBatches >= 1 /\ Len(progress) = TotalBatches
          /\ Len(settled) = TotalBatches) =>
         progress[Len(progress)].log.remaining = 0

(***************************************************************************)
(* C20: termination.  In a run with batchSize > 0 and a valid rate limit   *)
(* whose callbacks return, if every call of uploadFunction settles, the    *)
(* run eventually resolves, and then every batch of the input has been     *)
(* uploaded once, in order, counted as successful or failed, and followed  *)
(* by its progress line, and the error report has run once; before that    *)
(* the run can always take a step by itself except while an upload is in   *)
(* flight.                                                                 *)
(***************************************************************************)
Completed ==
  /\ pc = "resolved"
  /\ TotalBatches = NumCalls(Len(options.data), options.batchSize)
  /\ done = TotalBatches
  /\ uploadCalls = [k \in 1..TotalBatches |-> k]
  /\ Len(settled) = TotalBatches
  /\ successfullyUploadedBatches + failedBatches = TotalBatches
  /\ Len(progress) = TotalBatches
  /\ reports = 1
  /\ inFlight = 0

C20_Termination ==
  /\ (options.batchSize > 0 /\ ValidRateLimit /\ CallbacksReturn) ~> Completed
  /\ []((options.batchSize > 0 /\ ValidRateLimit /\ CallbacksReturn
          /\ pc \notin {"uploading", "resolved"})
        => ENABLED <<DriverStep>>_vars)

\* a resolved run of several batches, with a failure and an upload that took time
C20_Witness ==
  /\ Completed
  /\ TotalBatches >= 2
  /\ failedBatches >= 1
  /\ successfullyUploadedBatches >= 1
  /\ \E k \in 1..TotalBatches : options.uploadFunction[k].ms > 0

====
